---- MODULE Spec2Model ----
(***************************************************************************)
(* MongoDB Atlas vector store node (n8n).  Two source files define the     *)
(* node's functions:                                                       *)
(*   VectorStoreMongoDBAtlas.node.ts  - getMongoClient builds a client on  *)
(*       every call, getParameter type-checks, getCollections closes its   *)
(*       client in a finally block;                                        *)
(*   unnamed/part_000                 - getMongoClient goes through the    *)
(*       MONGO_CLIENTS map keyed by node id, the accessors return the      *)
(*       host's value unchecked, nothing is closed.                        *)
(* Definitions of node.ts keep the source's names; those of part_000 that  *)
(* clash carry the suffix _p0.                                             *)
(***************************************************************************)
EXTENDS Integers, Sequences, FiniteSets, TLC

VARIABLES
  MONGO_CLIENTS,   \* part_000: Map<node id, MongoClient>, a function on a subset of NodeIds
  nextHandle,      \* identity of the next object `new MongoClient(...)` yields
  closed,          \* clients on which close() has completed
  collections,     \* the database: its collection names, in listing order
  nodeParameters,  \* the host's per-item parameter store: item -> key -> value
  createIssued,    \* history: the names createCollection has been issued for
  firstClient,     \* history: per file and node id, the first client getMongoClient returned since the last clear
  resolved,        \* history: node ids part_000's resolver completed for since the last clear
  retired,         \* history: the <<node id, client>> entries a clear dropped from MONGO_CLIENTS
  last,            \* the last call: its inputs, what it observed, its outcome
  calls            \* the invocations in flight, one per slot: position, locals, outcome

vars == <<MONGO_CLIENTS, nextHandle, closed, collections, nodeParameters,
          createIssued, firstClient, resolved, retired, last, calls>>

(***************************************************************************)
(* Bounds and finite input domains                                         *)
(***************************************************************************)
MaxHandles == 2
MaxCalls == 3

NodeIds == {"n1", "n2"}
Items == {0, 1}
Handles == 1..MaxHandles
Slots == 1..MaxCalls

(***************************************************************************)
(* Program constants                                                       *)
(***************************************************************************)
MONGODB_COLLECTION_NAME == "mongoCollection"
VECTOR_INDEX_NAME == "vectorIndexName"
EMBEDDING_NAME == "embedding"
METADATA_FIELD_NAME == "metadata_field"
Keys == {MONGODB_COLLECTION_NAME, VECTOR_INDEX_NAME, EMBEDDING_NAME, METADATA_FIELD_NAME}

ConnectionDetails == "Please check your MongoDB Atlas connection details"
IndexDetails == "Please check that the index exists in your collection"

(***************************************************************************)
(* Values of the host's parameter store carry their JavaScript type.       *)
(***************************************************************************)
Str(s) == [type |-> "string", text |-> s]
NotAString == [type |-> "number", text |-> "7"]
IsString(v) == v.type = "string"

\* The store the stateful operations run against.  Item 0 addresses
\* collection docs and index idx; item 1 addresses collection logs and holds
\* a number where the index name should be.
HostStore ==
  [i \in Items |->
     [k \in Keys |->
        CASE k = MONGODB_COLLECTION_NAME -> IF i = 0 THEN Str("docs") ELSE Str("logs")
          [] k = VECTOR_INDEX_NAME -> IF i = 0 THEN Str("idx") ELSE NotAString
          [] k = EMBEDDING_NAME -> Str("embedding")
          [] OTHER -> Str("text")]]

\* Every store over three values, for the accessors on their own.
ParamValues == {Str("docs"), Str("idx"), NotAString}
AllStores == [Items -> [Keys -> ParamValues]]

\* What the database holds before the node's first call.
InitialCollections == {<<"archive">>}
IndexLists == {<<>>, <<"other">>, <<"other", "idx">>}

(***************************************************************************)
(* Errors.  itemIndex is {} when the error carries none.                   *)
(***************************************************************************)
NOE == "NodeOperationError"
Err(cls, message, itemIndex, description) ==
  [cls |-> cls, message |-> message, itemIndex |-> itemIndex, description |-> description]
NoErr == Err("none", <<>>, {}, "")
NodeOperationError(message, itemIndex, description) == Err(NOE, message, itemIndex, description)

\* The places where the host, the driver or the vector-search client can fail.
FaultSteps ==
  {"getMongoClient.getCredentials", "new MongoClient", "getDatabase.getCredentials",
   "listCollections", "createCollection", "listSearchIndexes", "fromDocuments", "close"}
\* A call's outcome depends on the first failing step it reaches (and, where
\* a finally block runs, on close), so a call draws its faults from the steps
\* it can reach: none, or one of them.
FaultsOf(steps) == {{}} \cup {{s} : s \in steps}
ResolverSteps == {"getMongoClient.getCredentials", "new MongoClient"}
DatabaseSteps == ResolverSteps \cup {"getDatabase.getCredentials"}
FaultErr(step) == Err("Error", <<step, " failed">>, {}, "")

(***************************************************************************)
(* A call's effect: outcome, observations, and the state it leaves.        *)
(***************************************************************************)
EmptyMap == [n \in {} |-> 1]
Put(m, k, v) == [n \in DOMAIN m \cup {k} |-> IF n = k THEN v ELSE m[n]]

Start ==
  [kind |-> "return", err |-> NoErr, inner |-> {},
   client |-> {}, fresh |-> FALSE,
   value |-> {}, results |-> <<>>, store |-> {},
   listed |-> {}, existed |-> {}, created |-> FALSE, reissued |-> FALSE, inserted |-> "no",
   cache |-> MONGO_CLIENTS, next |-> nextHandle, closed |-> closed,
   colls |-> collections, creates |-> createIssued]
Throw(e, error) == [e EXCEPT !.kind = "throw", !.err = error]

(***************************************************************************)
(* Client resolver                                                         *)
(***************************************************************************)
\* node.ts: credentials, then a new MongoClient, on every call.
getMongoClient(F) ==
  IF "getMongoClient.getCredentials" \in F
  THEN Throw(Start, FaultErr("getMongoClient.getCredentials"))
  ELSE IF "new MongoClient" \in F
  THEN Throw(Start, FaultErr("new MongoClient"))
  ELSE [Start EXCEPT !.client = {nextHandle}, !.fresh = TRUE, !.next = nextHandle + 1]

\* A faulty variant: the new client is returned but never stored in the map.
getMongoClient_p0_NoSet(nodeId, F) ==
  IF nodeId \in DOMAIN MONGO_CLIENTS
  THEN [Start EXCEPT !.client = {MONGO_CLIENTS[nodeId]}]
  ELSE IF "getMongoClient.getCredentials" \in F
  THEN Throw(Start, FaultErr("getMongoClient.getCredentials"))
  ELSE IF "new MongoClient" \in F
  THEN Throw(Start, FaultErr("new MongoClient"))
  ELSE [Start EXCEPT !.client = {nextHandle}, !.fresh = TRUE, !.next = nextHandle + 1]

\* A faulty variant: a miss stores and returns one shared client object instead of a
\* new one.
getMongoClient_p0_Shared(nodeId, F) ==
  IF nodeId \in DOMAIN MONGO_CLIENTS
  THEN [Start EXCEPT !.client = {MONGO_CLIENTS[nodeId]}]
  ELSE IF "getMongoClient.getCredentials" \in F
  THEN Throw(Start, FaultErr("getMongoClient.getCredentials"))
  ELSE IF "new MongoClient" \in F
  THEN Throw(Start, FaultErr("new MongoClient"))
  ELSE [Start EXCEPT !.client = {1}, !.fresh = TRUE,
                     !.next = IF nextHandle = 1 THEN nextHandle + 1 ELSE nextHandle,
                     !.cache = Put(MONGO_CLIENTS, nodeId, 1)]

\* part_000: the cached client of the node id, or credentials, a new
\* MongoClient, and MONGO_CLIENTS.set.
getMongoClient_p0(nodeId, F) ==
  IF nodeId \in DOMAIN MONGO_CLIENTS
  THEN [Start EXCEPT !.client = {MONGO_CLIENTS[nodeId]}]
  ELSE IF "getMongoClient.getCredentials" \in F
  THEN Throw(Start, FaultErr("getMongoClient.getCredentials"))
  ELSE IF "new MongoClient" \in F
  THEN Throw(Start, FaultErr("new MongoClient"))
  ELSE [Start EXCEPT !.client = {nextHandle}, !.fresh = TRUE, !.next = nextHandle + 1,
                     !.cache = Put(MONGO_CLIENTS, nodeId, nextHandle)]

\* node.ts: getDatabase(context, client), continuing the effect e that
\* produced the client.
getDatabase(e, F) ==
  IF "getDatabase.getCredentials" \in F
  THEN Throw(e, FaultErr("getDatabase.getCredentials"))
  ELSE e

\* part_000: getDatabase(context) resolves the client itself.
getDatabase_p0(nodeId, F) ==
  LET e == getMongoClient_p0(nodeId, F) IN
  IF e.kind = "throw" THEN e
  ELSE IF "getDatabase.getCredentials" \in F
  THEN Throw(e, FaultErr("getDatabase.getCredentials"))
  ELSE e

(***************************************************************************)
(* Parameter accessors                                                     *)
(***************************************************************************)
getNodeParameter(key, itemIndex) == nodeParameters[itemIndex][key]

\* A faulty variant: the type check is missing.
getParameter_Unchecked(key, itemIndex) ==
  [kind |-> "return", value |-> {getNodeParameter(key, itemIndex)}, err |-> NoErr]

\* node.ts: the value when it is a string, else a NodeOperationError
\* without options.
getParameter(key, itemIndex) ==
  LET value == getNodeParameter(key, itemIndex) IN
  IF ~IsString(value)
  THEN [kind |-> "throw", value |-> {},
        err |-> NodeOperationError(<<"Parameter ", key, " must be a string">>, {}, "")]
  ELSE [kind |-> "return", value |-> {value}, err |-> NoErr]

getCollectionName(itemIndex) == getParameter(MONGODB_COLLECTION_NAME, itemIndex)
getVectorIndexName(itemIndex) == getParameter(VECTOR_INDEX_NAME, itemIndex)
getEmbeddingFieldName(itemIndex) == getParameter(EMBEDDING_NAME, itemIndex)
getMetadataFieldName(itemIndex) == getParameter(METADATA_FIELD_NAME, itemIndex)

\* part_000: the host's value, whatever its type (`as string` checks nothing
\* at run time).
getCollectionName_p0(itemIndex) ==
  [kind |-> "return", value |-> {getNodeParameter(MONGODB_COLLECTION_NAME, itemIndex)}, err |-> NoErr]
getVectorIndexName_p0(itemIndex) ==
  [kind |-> "return", value |-> {getNodeParameter(VECTOR_INDEX_NAME, itemIndex)}, err |-> NoErr]
getEmbeddingFieldName_p0(itemIndex) ==
  [kind |-> "return", value |-> {getNodeParameter(EMBEDDING_NAME, itemIndex)}, err |-> NoErr]
getMetadataFieldName_p0(itemIndex) ==
  [kind |-> "return", value |-> {getNodeParameter(METADATA_FIELD_NAME, itemIndex)}, err |-> NoErr]

(***************************************************************************)
(* The driver and the vector-search client, as far as the node uses them   *)
(***************************************************************************)
\* db.listCollections().toArray() mapped to {name, value} pairs.
ListingResults == [i \in 1..Len(collections) |-> [name |-> collections[i], value |-> collections[i]]]

\* db.listCollections({ name }).toArray() has an entry.
CollectionListed(colls, name) ==
  \E i \in 1..Len(colls) : Str(colls[i]) = name

\* db.createCollection(name), continuing e: the command is issued; it fails
\* on a fault and on a name already in use.
createCollection(e, name, F) ==
  LET issued == [e EXCEPT !.created = TRUE, !.reissued = name.text \in e.creates,
                          !.creates = e.creates \cup {name.text}] IN
  IF "createCollection" \in F THEN Throw(issued, FaultErr("createCollection"))
  ELSE IF CollectionListed(e.colls, name)
  THEN Throw(issued, Err("Error", <<"Collection ", name.text, " already exists">>, {}, ""))
  ELSE [issued EXCEPT !.colls = Append(e.colls, name.text)]

\* MongoDBAtlasVectorSearch.fromDocuments(...), continuing e: the batch
\* insert; an insert into a missing collection creates it implicitly.
fromDocuments(e, name, F) ==
  IF "fromDocuments" \in F THEN Throw(e, FaultErr("fromDocuments"))
  ELSE IF CollectionListed(e.colls, name)
  THEN [e EXCEPT !.inserted = "existing"]
  ELSE [e EXCEPT !.inserted = "missing",
                 !.colls = Append(e.colls, name.text)]

\* indexes.some((index) => index.name === mongoVectorIndexName)
indexExists(indexes, mongoVectorIndexName) ==
  \E i \in 1..Len(indexes) : Str(indexes[i]) = mongoVectorIndexName

\* The first accessor of the four, in call order, that threw ({} when none).
FirstThrown(params) ==
  LET bad == {j \in 1..Len(params) : params[j].kind = "throw"} IN
  IF bad = {} THEN {}
  ELSE {params[CHOOSE j \in bad : \A k \in bad : j <= k].err}
ValueOf(param) == CHOOSE v \in param.value : TRUE

\* catch: wrap with the item index and the connection guidance.
Wrap(error, itemIndex) ==
  NodeOperationError(<<"Error: ">> \o error.message, {itemIndex}, ConnectionDetails)

(***************************************************************************)
(* Collection lister                                                       *)
(***************************************************************************)
\* node.ts: client and database outside the try; listing failures wrapped
\* without options; finally closes the client.
getCollections(F) ==
  LET c == getMongoClient(F) IN
  IF c.kind = "throw" THEN c
  ELSE
  LET d == getDatabase(c, F) IN
  IF d.kind = "throw" THEN d
  ELSE
  LET body ==
        IF "listCollections" \in F
        THEN [d EXCEPT !.kind = "throw", !.inner = {FaultErr("listCollections")},
                       !.err = NodeOperationError(
                                 <<"Error: ">> \o FaultErr("listCollections").message, {}, "")]
        ELSE [d EXCEPT !.results = ListingResults]
  IN
  IF "close" \in F
  THEN [body EXCEPT !.kind = "throw", !.err = FaultErr("close"), !.results = <<>>]
  ELSE [body EXCEPT !.closed = d.closed \cup d.client]

\* part_000: database outside the try; listing failures wrapped without
\* options.
getCollections_p0(nodeId, F) ==
  LET d == getDatabase_p0(nodeId, F) IN
  IF d.kind = "throw" THEN d
  ELSE IF "listCollections" \in F
  THEN [d EXCEPT !.kind = "throw", !.inner = {FaultErr("listCollections")},
                 !.err = NodeOperationError(
                           <<"Error: ">> \o FaultErr("listCollections").message, {}, "")]
  ELSE [d EXCEPT !.results = ListingResults]

(***************************************************************************)
(* Vector store adapter: read path                                         *)
(***************************************************************************)
\* A faulty variant: the store is built without testing that the index exists.
VectorStoreBody_NoIndexTest(d, params, itemIndex, indexes, F) ==
  LET thrown == FirstThrown(params) IN
  IF thrown # {} THEN Throw(d, CHOOSE x \in thrown : TRUE)
  ELSE IF "listSearchIndexes" \in F THEN Throw(d, FaultErr("listSearchIndexes"))
  ELSE [d EXCEPT !.listed = {indexes},
                 !.store = {[collection |-> ValueOf(params[1]),
                             indexName |-> ValueOf(params[2]),
                             textKey |-> ValueOf(params[4]),
                             embeddingKey |-> ValueOf(params[3])]}]

\* The try block after the database is resolved: the four parameters, the
\* collection, the index test, the store.
VectorStoreBody(d, params, itemIndex, indexes, F) ==
  LET thrown == FirstThrown(params) IN
  IF thrown # {} THEN Throw(d, CHOOSE x \in thrown : TRUE)
  ELSE
  LET collectionName == ValueOf(params[1])
      mongoVectorIndexName == ValueOf(params[2])
      embeddingFieldName == ValueOf(params[3])
      metadataFieldName == ValueOf(params[4])
  IN
  IF "listSearchIndexes" \in F THEN Throw(d, FaultErr("listSearchIndexes"))
  ELSE
  LET l == [d EXCEPT !.listed = {indexes}] IN
  IF ~indexExists(indexes, mongoVectorIndexName)
  THEN Throw(l, NodeOperationError(<<"Index ", mongoVectorIndexName.text, " not found">>,
                                   {itemIndex}, IndexDetails))
  ELSE [l EXCEPT !.store = {[collection |-> collectionName,
                             indexName |-> mongoVectorIndexName,
                             textKey |-> metadataFieldName,
                             embeddingKey |-> embeddingFieldName]}]

\* A faulty variant: the catch wraps every error, as the write path does.
CatchRead_WrapAll(e, itemIndex) ==
  IF e.kind # "throw" THEN e
  ELSE [e EXCEPT !.inner = {e.err}, !.err = Wrap(e.err, itemIndex)]

\* catch of the read path: a NodeOperationError is rethrown as it is,
\* anything else is wrapped.
CatchRead(e, itemIndex) ==
  IF e.kind # "throw" THEN e
  ELSE [e EXCEPT !.inner = {e.err},
                 !.err = IF e.err.cls = NOE THEN e.err ELSE Wrap(e.err, itemIndex)]

\* node.ts: the client is resolved before the try.
getVectorStoreClient(itemIndex, indexes, F) ==
  LET c == getMongoClient(F) IN
  IF c.kind = "throw" THEN c
  ELSE
  LET d == getDatabase(c, F) IN
  CatchRead(IF d.kind = "throw" THEN d
            ELSE VectorStoreBody(d, <<getCollectionName(itemIndex), getVectorIndexName(itemIndex),
                                      getEmbeddingFieldName(itemIndex), getMetadataFieldName(itemIndex)>>,
                                 itemIndex, indexes, F),
            itemIndex)

\* part_000: everything is inside the try.
getVectorStoreClient_p0(nodeId, itemIndex, indexes, F) ==
  LET d == getDatabase_p0(nodeId, F) IN
  CatchRead(IF d.kind = "throw" THEN d
            ELSE VectorStoreBody(d, <<getCollectionName_p0(itemIndex), getVectorIndexName_p0(itemIndex),
                                      getEmbeddingFieldName_p0(itemIndex), getMetadataFieldName_p0(itemIndex)>>,
                                 itemIndex, indexes, F),
            itemIndex)

(***************************************************************************)
(* Vector store adapter: write path                                        *)
(***************************************************************************)
\* A faulty variant: createCollection is issued without looking at the listing.
PopulateBody_AlwaysCreate(d, params, F) ==
  LET thrown == FirstThrown(params) IN
  IF thrown # {} THEN Throw(d, CHOOSE x \in thrown : TRUE)
  ELSE
  LET collectionName == ValueOf(params[1]) IN
  IF "listCollections" \in F THEN Throw(d, FaultErr("listCollections"))
  ELSE
  LET l == [d EXCEPT !.existed = {CollectionListed(d.colls, collectionName)}]
      c == createCollection(l, collectionName, F)
  IN
  IF c.kind = "throw" THEN c ELSE fromDocuments(c, collectionName, F)

\* The try block after the database is resolved: the four parameters, the
\* existence check, the create, the batch insert.
PopulateBody(d, params, F) ==
  LET thrown == FirstThrown(params) IN
  IF thrown # {} THEN Throw(d, CHOOSE x \in thrown : TRUE)
  ELSE
  LET collectionName == ValueOf(params[1]) IN
  IF "listCollections" \in F THEN Throw(d, FaultErr("listCollections"))
  ELSE
  LET found == CollectionListed(d.colls, collectionName)
      l == [d EXCEPT !.existed = {found}]
      c == IF ~found THEN createCollection(l, collectionName, F) ELSE l
  IN
  IF c.kind = "throw" THEN c ELSE fromDocuments(c, collectionName, F)

\* catch of the write path: every error is wrapped.
CatchWrite(e, itemIndex) ==
  IF e.kind # "throw" THEN e
  ELSE [e EXCEPT !.inner = {e.err}, !.err = Wrap(e.err, itemIndex)]

\* node.ts: the client is resolved before the try.
populateVectorStore(itemIndex, F) ==
  LET c == getMongoClient(F) IN
  IF c.kind = "throw" THEN c
  ELSE
  LET d == getDatabase(c, F) IN
  CatchWrite(IF d.kind = "throw" THEN d
             ELSE PopulateBody(d, <<getCollectionName(itemIndex), getVectorIndexName(itemIndex),
                                    getEmbeddingFieldName(itemIndex), getMetadataFieldName(itemIndex)>>, F),
             itemIndex)

\* part_000: everything is inside the try.
populateVectorStore_p0(nodeId, itemIndex, F) ==
  LET d == getDatabase_p0(nodeId, F) IN
  CatchWrite(IF d.kind = "throw" THEN d
             ELSE PopulateBody(d, <<getCollectionName_p0(itemIndex), getVectorIndexName_p0(itemIndex),
                                    getEmbeddingFieldName_p0(itemIndex), getMetadataFieldName_p0(itemIndex)>>, F),
             itemIndex)

(***************************************************************************)
(* State machine                                                           *)
(***************************************************************************)
Files == {"node", "p0"}
NoFirstClient == [f \in Files \X NodeIds |-> {}]

NoCall ==
  [op |-> "none", node |-> "", item |-> {}, key |-> "",
   kind |-> "return", err |-> NoErr, inner |-> {}, client |-> {}, fresh |-> FALSE,
   value |-> {}, results |-> <<>>, store |-> {}, listed |-> {}, existed |-> {},
   created |-> FALSE, reissued |-> FALSE, inserted |-> "no"]

\* A slot no invocation has been started in.
Idle ==
  [op |-> "none", pc |-> "idle", node |-> "", item |-> {}, client |-> {}, fresh |-> FALSE,
   existed |-> {}, created |-> FALSE, err |-> NoErr]
NoCalls == [p \in Slots |-> Idle]

Init ==
  /\ MONGO_CLIENTS = EmptyMap
  /\ nextHandle = 1
  /\ closed = {}
  /\ collections \in InitialCollections
  /\ nodeParameters = HostStore
  /\ createIssued = {}
  /\ firstClient = NoFirstClient
  /\ resolved = {}
  /\ retired = {}
  /\ last = NoCall
  /\ calls = NoCalls

\* The part of a call that is about the client: the resolvers are called
\* for a node id and hand the client (or the database bound to it) back; the
\* other operations keep the client to themselves.
Resolvers == {"getMongoClient", "getMongoClient_p0", "getDatabase", "getDatabase_p0"}
Returned(op, nodeId, e) ==
  IF op \in Resolvers
  THEN [node |-> nodeId, client |-> e.client, fresh |-> e.fresh]
  ELSE [node |-> "", client |-> {}, fresh |-> FALSE]

\* A completed call of operation op: its record, the state its effect e
\* leaves, and the history.  resolver is "p0" or "node" for a call that
\* went through that file's getMongoClient, "none" otherwise.
Complete(op, nodeId, item, e, resolver) ==
  /\ e.next <= MaxHandles + 1
  /\ last' = [NoCall EXCEPT !.op = op, !.node = Returned(op, nodeId, e).node, !.item = item,
                            !.kind = e.kind, !.err = e.err, !.inner = e.inner,
                            !.client = Returned(op, nodeId, e).client,
                            !.fresh = Returned(op, nodeId, e).fresh,
                            !.results = e.results, !.store = e.store, !.listed = e.listed,
                            !.existed = e.existed, !.created = e.created,
                            !.reissued = e.reissued,
                            !.inserted = e.inserted]
  /\ MONGO_CLIENTS' = e.cache
  /\ nextHandle' = e.next
  /\ closed' = e.closed
  /\ collections' = e.colls
  /\ createIssued' = e.creates
  /\ firstClient' = IF resolver \in Files /\ e.client # {} /\ firstClient[<<resolver, nodeId>>] = {}
                    THEN [firstClient EXCEPT ![<<resolver, nodeId>>] = e.client]
                    ELSE firstClient
  /\ resolved' = IF resolver = "p0" /\ e.client # {} THEN resolved \cup {nodeId} ELSE resolved
  /\ UNCHANGED <<nodeParameters, retired, calls>>

\* The effect is computed once, then applied.
Apply(op, nodeId, item, effect, resolver) ==
  \E e \in {effect} : Complete(op, nodeId, item, e, resolver)

GetMongoClient ==
  \E nodeId \in NodeIds, F \in FaultsOf(ResolverSteps) :
    Apply("getMongoClient", nodeId, {}, getMongoClient(F), "node")

GetMongoClient_p0 ==
  \E nodeId \in NodeIds, F \in FaultsOf(ResolverSteps) :
    Apply("getMongoClient_p0", nodeId, {}, getMongoClient_p0(nodeId, F), "p0")

\* node.ts getDatabase takes a client the caller already holds.
GetDatabase ==
  \E nodeId \in NodeIds, F \in FaultsOf({"getDatabase.getCredentials"}),
     client \in 1..(nextHandle - 1) :
    Apply("getDatabase", nodeId, {}, getDatabase([Start EXCEPT !.client = {client}], F), "none")

GetDatabase_p0 ==
  \E nodeId \in NodeIds, F \in FaultsOf(DatabaseSteps) :
    Apply("getDatabase_p0", nodeId, {}, getDatabase_p0(nodeId, F), "p0")

GetCollections ==
  \E nodeId \in NodeIds,
     F \in FaultsOf(DatabaseSteps \cup {"listCollections", "close"})
              \cup {{"listCollections", "close"}} :
    Apply("getCollections", nodeId, {}, getCollections(F), "node")

GetCollections_p0 ==
  \E nodeId \in NodeIds, F \in FaultsOf(DatabaseSteps \cup {"listCollections"}) :
    Apply("getCollections_p0", nodeId, {}, getCollections_p0(nodeId, F), "p0")

GetVectorStoreClient ==
  \E nodeId \in NodeIds, itemIndex \in Items, indexes \in IndexLists,
     F \in FaultsOf(DatabaseSteps \cup {"listSearchIndexes"}) :
    Apply("getVectorStoreClient", nodeId, {itemIndex},
          getVectorStoreClient(itemIndex, indexes, F), "node")

GetVectorStoreClient_p0 ==
  \E nodeId \in NodeIds, itemIndex \in Items, indexes \in IndexLists,
     F \in FaultsOf(DatabaseSteps \cup {"listSearchIndexes"}) :
    Apply("getVectorStoreClient_p0", nodeId, {itemIndex},
          getVectorStoreClient_p0(nodeId, itemIndex, indexes, F), "p0")

PopulateVectorStore ==
  \E nodeId \in NodeIds, itemIndex \in Items,
     F \in FaultsOf(DatabaseSteps \cup {"listCollections", "createCollection", "fromDocuments"}) :
    Apply("populateVectorStore", nodeId, {itemIndex}, populateVectorStore(itemIndex, F), "node")

PopulateVectorStore_p0 ==
  \E nodeId \in NodeIds, itemIndex \in Items,
     F \in FaultsOf(DatabaseSteps \cup {"listCollections", "createCollection", "fromDocuments"}) :
    Apply("populateVectorStore_p0", nodeId, {itemIndex},
          populateVectorStore_p0(nodeId, itemIndex, F), "p0")

\* MONGO_CLIENTS.clear()
Clear ==
  /\ MONGO_CLIENTS' = EmptyMap
  /\ retired' = retired \cup {<<n, MONGO_CLIENTS[n]>> : n \in DOMAIN MONGO_CLIENTS}
  /\ firstClient' = NoFirstClient
  /\ resolved' = {}
  /\ last' = [NoCall EXCEPT !.op = "clear"]
  /\ UNCHANGED <<nextHandle, closed, collections, nodeParameters, createIssued, calls>>

\* The client resolver and the operations that only read the database.
ClientNext ==
  \/ GetMongoClient
  \/ GetMongoClient_p0
  \/ GetDatabase
  \/ GetDatabase_p0
  \/ GetCollections
  \/ GetCollections_p0
  \/ Clear

\* The two vector store hooks.
StoreNext ==
  \/ GetVectorStoreClient
  \/ GetVectorStoreClient_p0
  \/ PopulateVectorStore
  \/ PopulateVectorStore_p0

Next == ClientNext \/ StoreNext

Spec == Init /\ [][Next]_vars
ClientSpec == Init /\ [][ClientNext]_vars
StoreSpec == Init /\ [][StoreNext]_vars

(***************************************************************************)
(* The accessors on their own: pure functions of the host's store, applied *)
(* to every store over ParamValues.                                        *)
(***************************************************************************)
ParamInit ==
  /\ MONGO_CLIENTS = EmptyMap
  /\ nextHandle = 1
  /\ closed = {}
  /\ collections \in InitialCollections
  /\ nodeParameters \in AllStores
  /\ createIssued = {}
  /\ firstClient = NoFirstClient
  /\ resolved = {}
  /\ retired = {}
  /\ last = NoCall
  /\ calls = NoCalls

Accessed(op, key, itemIndex, r) ==
  /\ last' = [NoCall EXCEPT !.op = op, !.key = key, !.item = {itemIndex},
                            !.kind = r.kind, !.err = r.err, !.value = r.value]
  /\ UNCHANGED <<MONGO_CLIENTS, nextHandle, closed, collections, nodeParameters,
                 createIssued, firstClient, resolved, retired, calls>>

GetParameter ==
  \E key \in Keys, itemIndex \in Items :
    Accessed("getParameter", key, itemIndex, getParameter(key, itemIndex))
GetCollectionName ==
  \E itemIndex \in Items :
    Accessed("getCollectionName", MONGODB_COLLECTION_NAME, itemIndex, getCollectionName(itemIndex))
GetVectorIndexName ==
  \E itemIndex \in Items :
    Accessed("getVectorIndexName", VECTOR_INDEX_NAME, itemIndex, getVectorIndexName(itemIndex))
GetEmbeddingFieldName ==
  \E itemIndex \in Items :
    Accessed("getEmbeddingFieldName", EMBEDDING_NAME, itemIndex, getEmbeddingFieldName(itemIndex))
GetMetadataFieldName ==
  \E itemIndex \in Items :
    Accessed("getMetadataFieldName", METADATA_FIELD_NAME, itemIndex, getMetadataFieldName(itemIndex))
GetCollectionName_p0 ==
  \E itemIndex \in Items :
    Accessed("getCollectionName_p0", MONGODB_COLLECTION_NAME, itemIndex, getCollectionName_p0(itemIndex))
GetVectorIndexName_p0 ==
  \E itemIndex \in Items :
    Accessed("getVectorIndexName_p0", VECTOR_INDEX_NAME, itemIndex, getVectorIndexName_p0(itemIndex))
GetEmbeddingFieldName_p0 ==
  \E itemIndex \in Items :
    Accessed("getEmbeddingFieldName_p0", EMBEDDING_NAME, itemIndex, getEmbeddingFieldName_p0(itemIndex))
GetMetadataFieldName_p0 ==
  \E itemIndex \in Items :
    Accessed("getMetadataFieldName_p0", METADATA_FIELD_NAME, itemIndex, getMetadataFieldName_p0(itemIndex))

ParamNext ==
  \/ GetParameter
  \/ GetCollectionName
  \/ GetVectorIndexName
  \/ GetEmbeddingFieldName
  \/ GetMetadataFieldName
  \/ GetCollectionName_p0
  \/ GetVectorIndexName_p0
  \/ GetEmbeddingFieldName_p0
  \/ GetMetadataFieldName_p0

ParamSpec == ParamInit /\ [][ParamNext]_vars

(***************************************************************************)
(* part_000's getMongoClient as the event loop runs it: an invocation runs *)
(* to its await of the credentials, other invocations run meanwhile, and   *)
(* it resumes with the cache value it read before the await.               *)
(***************************************************************************)
\* Up to the await: MONGO_CLIENTS.get(nodeId), {} on a miss.
getMongoClient_p0_get(nodeId) ==
  IF nodeId \in DOMAIN MONGO_CLIENTS THEN {MONGO_CLIENTS[nodeId]} ELSE {}

\* A faulty variant: after the await the new client is stored only when the
\* map has no entry for the node id.
getMongoClient_p0_resume_KeepFirst(nodeId, F) ==
  IF "getMongoClient.getCredentials" \in F
  THEN Throw(Start, FaultErr("getMongoClient.getCredentials"))
  ELSE IF "new MongoClient" \in F
  THEN Throw(Start, FaultErr("new MongoClient"))
  ELSE [Start EXCEPT !.client = {nextHandle}, !.fresh = TRUE, !.next = nextHandle + 1,
                     !.cache = IF nodeId \in DOMAIN MONGO_CLIENTS THEN MONGO_CLIENTS
                               ELSE Put(MONGO_CLIENTS, nodeId, nextHandle)]

\* From the await on: the credentials arrive or the lookup rejects, then
\* new MongoClient, MONGO_CLIENTS.set and the return, with no second look at
\* the map.
getMongoClient_p0_resume(nodeId, F) ==
  IF "getMongoClient.getCredentials" \in F
  THEN Throw(Start, FaultErr("getMongoClient.getCredentials"))
  ELSE IF "new MongoClient" \in F
  THEN Throw(Start, FaultErr("new MongoClient"))
  ELSE [Start EXCEPT !.client = {nextHandle}, !.fresh = TRUE, !.next = nextHandle + 1,
                     !.cache = Put(MONGO_CLIENTS, nodeId, nextHandle)]

\* The host starts an invocation: a hit returns at once, a miss suspends.
CallGetMongoClient_p0(p) ==
  /\ calls[p].pc = "idle"
  /\ \E nodeId \in NodeIds :
       LET cached == getMongoClient_p0_get(nodeId) IN
       calls' = [calls EXCEPT ![p] =
                   [Idle EXCEPT !.op = "getMongoClient_p0", !.node = nodeId, !.client = cached,
                                !.pc = IF cached # {} THEN "returned" ELSE "credentials"]]
  /\ UNCHANGED <<MONGO_CLIENTS, nextHandle, closed, collections, nodeParameters,
                 createIssued, firstClient, resolved, retired, last>>

\* The event loop resumes an invocation suspended at the credential lookup.
ResumeGetMongoClient_p0(p) ==
  /\ calls[p].op = "getMongoClient_p0" /\ calls[p].pc = "credentials"
  /\ \E F \in FaultsOf(ResolverSteps) :
       \E e \in {getMongoClient_p0_resume(calls[p].node, F)} :
         /\ e.next <= MaxHandles + 1
         /\ MONGO_CLIENTS' = e.cache
         /\ nextHandle' = e.next
         /\ calls' = [calls EXCEPT ![p].pc = IF e.kind = "throw" THEN "thrown" ELSE "returned",
                                   ![p].client = e.client, ![p].fresh = e.fresh,
                                   ![p].err = e.err]
  /\ UNCHANGED <<closed, collections, nodeParameters, createIssued, firstClient,
                 resolved, retired, last>>

RaceNext ==
  \/ \E p \in Slots : CallGetMongoClient_p0(p)
  \/ \E p \in Slots : ResumeGetMongoClient_p0(p)

RaceSpec == Init /\ [][RaceNext]_vars

(***************************************************************************)
(* Properties                                                              *)
(***************************************************************************)
ItemOf(call) == CHOOSE i \in call.item : TRUE

\* C1: while the cache is not cleared, every getMongoClient call for a node
\* id returns the client the first call for that id returned.  Stated for the
\* getMongoClient of both files; node.ts's builds a new client on each call.
C1_SameHandleAsFirst ==
  /\ (last.op = "getMongoClient" /\ last.kind = "return")
       => last.client = firstClient[<<"node", last.node>>]
  /\ (last.op = "getMongoClient_p0" /\ last.kind = "return")
       => last.client = firstClient[<<"p0", last.node>>]

\* The part of C1 that is about part_000's getMongoClient alone.
SameHandleAsFirst_p0 ==
  (last.op = "getMongoClient_p0" /\ last.kind = "return")
    => last.client = firstClient[<<"p0", last.node>>]

\* C2: after part_000's resolver completes for node id N, MONGO_CLIENTS maps
\* N to the client that call handed back; the map has no entry for an id
\* that was not resolved since the last clear, so one resolve on an empty map
\* leaves it with size 1.  (A Map holds one value per key: MONGO_CLIENTS is a
\* function.)
C2_CacheHoldsReturned ==
  /\ (last.op \in {"getMongoClient_p0", "getDatabase_p0"} /\ last.client # {})
       => /\ last.node \in DOMAIN MONGO_CLIENTS
          /\ last.client = {MONGO_CLIENTS[last.node]}
  /\ DOMAIN MONGO_CLIENTS \subseteq resolved
  /\ Cardinality(resolved) = 1 => Cardinality(DOMAIN MONGO_CLIENTS) = 1

\* C2 witness: one resolve on an empty map built a client, and the map holds
\* exactly that entry.
C2_Witness ==
  /\ last.op = "getMongoClient_p0" /\ last.kind = "return" /\ last.fresh
  /\ resolved = {last.node}
  /\ DOMAIN MONGO_CLIENTS = {last.node}

\* C3: a client that a clear dropped from the map is never handed back: the
\* resolve after the clear returns a client distinct from it, and that client
\* is the one the map holds for the node id.
C3_NewAfterClear ==
  (last.op = "getMongoClient_p0" /\ last.kind = "return")
    => /\ \A r \in retired : r[2] \notin last.client
       /\ last.node \in DOMAIN MONGO_CLIENTS
       /\ last.client = {MONGO_CLIENTS[last.node]}

\* C3 witness: the node id had a client, the map was cleared, and the
\* resolver has completed for the node id again.
C3_Witness ==
  /\ last.op = "getMongoClient_p0" /\ last.kind = "return"
  /\ \E r \in retired : r[1] = last.node

\* C9: getCollections either returns one {name, value} pair per collection,
\* in listing order, or fails with a NodeOperationError.
C9_ListOrOperationalError ==
  last.op \in {"getCollections", "getCollections_p0"}
    => \/ /\ last.kind = "return"
          /\ last.results = [i \in 1..Len(collections) |->
                               [name |-> collections[i], value |-> collections[i]]]
       \/ /\ last.kind = "throw"
          /\ last.err.cls = NOE

\* C10: no operation closes a client it obtained.
C10_NeverClosed == closed = {}

\* C4: the read path returns a store only when the configured index name is
\* the name of a listed search index; when the listing holds no index of
\* that name (the empty listing included) it fails with the operational
\* error "Index <name> not found" carrying the item index, and builds no
\* store.
C4_IndexMustBeListed ==
  last.op \in {"getVectorStoreClient", "getVectorStoreClient_p0"}
    => LET name == nodeParameters[ItemOf(last)][VECTOR_INDEX_NAME]
           Listed(l) == name.type = "string" /\ name.text \in {l[i] : i \in 1..Len(l)}
       IN
       /\ last.kind = "return"
            => /\ last.store # {}
               /\ \E l \in last.listed : Listed(l)
       /\ \A l \in last.listed :
            ~Listed(l)
              => /\ last.kind = "throw"
                 /\ last.err = [cls |-> NOE,
                                message |-> <<"Index ", name.text, " not found">>,
                                itemIndex |-> last.item,
                                description |-> IndexDetails]
                 /\ last.store = {}

\* C4 witness: the listing held an index, none of the configured name, and
\* the read path failed.
C4_Witness ==
  /\ last.op = "getVectorStoreClient"
  /\ last.listed = {<<"other">>}
  /\ last.kind = "throw"
  /\ last.store = {}

\* C5 as stated: a write that finds the collection absent creates it before
\* inserting, a write that finds it present inserts without createCollection,
\* createCollection is issued at most once per collection name, and the
\* insert happens after the collection exists.
C5_CreateAtMostOnce ==
  last.op \in {"populateVectorStore", "populateVectorStore_p0"}
    => /\ last.created => last.existed = {FALSE}
       /\ last.existed = {TRUE} => ~last.created
       /\ (last.existed = {FALSE} /\ last.inserted # "no") => last.created
       /\ last.inserted # "missing"
       /\ ~last.reissued

\* C5 as amended: createCollection is issued exactly by the writes that find
\* the collection absent, so it is issued again for a name only while the
\* collection is still absent (an earlier create for it failed); the insert
\* happens after the collection exists.
C5_CreateOnlyWhenAbsent ==
  last.op \in {"populateVectorStore", "populateVectorStore_p0"}
    => /\ last.created => last.existed = {FALSE}
       /\ last.existed = {TRUE} => ~last.created
       /\ (last.existed = {FALSE} /\ last.inserted # "no") => last.created
       /\ last.inserted # "missing"
       /\ last.reissued => last.existed = {FALSE}

\* C5 witness: a write found the collection absent, created it and inserted;
\* the collection is now in the database.
C5_Witness ==
  /\ last.op = "populateVectorStore"
  /\ last.kind = "return"
  /\ last.existed = {FALSE} /\ last.created /\ last.inserted = "existing"
  /\ \E i \in 1..Len(collections) :
       Str(collections[i]) = nodeParameters[ItemOf(last)][MONGODB_COLLECTION_NAME]

C7_EveryFailureWrapped ==
  (last.op \in {"populateVectorStore", "populateVectorStore_p0"} /\ last.kind = "throw")
    => /\ last.err.cls = NOE
       /\ last.err.itemIndex = last.item
       /\ last.err.description = ConnectionDetails

\* The part of C7 that is about part_000's populateVectorStore alone.
EveryFailureWrapped_p0 ==
  (last.op = "populateVectorStore_p0" /\ last.kind = "throw")
    => /\ last.err.cls = NOE
       /\ last.err.itemIndex = last.item
       /\ last.err.description = ConnectionDetails

\* C8: each accessor of node.ts returns the value the host stores under its
\* key for the item when that value is a string, and otherwise throws
\* "Parameter <key> must be a string" and returns nothing.
C8_StringOrError ==
  last.op \in {"getParameter", "getCollectionName", "getVectorIndexName",
               "getEmbeddingFieldName", "getMetadataFieldName"}
    => LET key == CASE last.op = "getCollectionName" -> "mongoCollection"
                    [] last.op = "getVectorIndexName" -> "vectorIndexName"
                    [] last.op = "getEmbeddingFieldName" -> "embedding"
                    [] last.op = "getMetadataFieldName" -> "metadata_field"
                    [] OTHER -> last.key
           stored == nodeParameters[ItemOf(last)][key]
       IN
       /\ \A v \in last.value : v.type = "string"
       /\ stored.type = "string" => (last.kind = "return" /\ last.value = {stored})
       /\ stored.type # "string"
            => /\ last.kind = "throw"
               /\ last.value = {}
               /\ last.err.cls = NOE
               /\ last.err.message = <<"Parameter ", key, " must be a string">>

\* C8 witness: an accessor met a value that is no string and threw.
C8_Witness ==
  /\ last.op = "getVectorIndexName"
  /\ nodeParameters[ItemOf(last)]["vectorIndexName"].type # "string"
  /\ last.kind = "throw"

(***************************************************************************)
(* populateVectorStore as the event loop runs it for several items at      *)
(* once: an invocation is suspended while its listing, its create and its  *)
(* insert are in flight, and the server serves the requests one at a time  *)
(* in the order they reach it.                                             *)
(***************************************************************************)
\* A parameter store in which both items address the collection docs, which
\* the database does not hold at the start.
SharedStore ==
  [i \in Items |->
     [k \in Keys |->
        CASE k = MONGODB_COLLECTION_NAME -> Str("docs")
          [] k = VECTOR_INDEX_NAME -> Str("idx")
          [] k = EMBEDDING_NAME -> Str("embedding")
          [] OTHER -> Str("text")]]

PopulateRaceInit ==
  /\ MONGO_CLIENTS = EmptyMap
  /\ nextHandle = 1
  /\ closed = {}
  /\ collections \in InitialCollections
  /\ nodeParameters = SharedStore
  /\ createIssued = {}
  /\ firstClient = NoFirstClient
  /\ resolved = {}
  /\ retired = {}
  /\ last = NoCall
  /\ calls = NoCalls

\* The try block up to the listing request: the database, then the four
\* parameters.
PopulateStart(d, params) ==
  IF d.kind = "throw" THEN d
  ELSE LET thrown == FirstThrown(params) IN
       IF thrown # {} THEN Throw(d, CHOOSE x \in thrown : TRUE) ELSE d

\* node.ts up to `await db.listCollections(...)`; the client is resolved
\* before the try.
populateVectorStore_begin(itemIndex, F) ==
  LET c == getMongoClient(F) IN
  IF c.kind = "throw" THEN c
  ELSE CatchWrite(PopulateStart(getDatabase(c, F),
                                <<getCollectionName(itemIndex), getVectorIndexName(itemIndex),
                                  getEmbeddingFieldName(itemIndex), getMetadataFieldName(itemIndex)>>),
                  itemIndex)

\* part_000 up to `await db.listCollections(...)`.
populateVectorStore_p0_begin(nodeId, itemIndex, F) ==
  CatchWrite(PopulateStart(getDatabase_p0(nodeId, F),
                           <<getCollectionName_p0(itemIndex), getVectorIndexName_p0(itemIndex),
                             getEmbeddingFieldName_p0(itemIndex), getMetadataFieldName_p0(itemIndex)>>),
             itemIndex)

\* The listing answers with the collections the server holds at that moment.
populateVectorStore_listed(itemIndex, name, F) ==
  IF "listCollections" \in F
  THEN CatchWrite(Throw(Start, FaultErr("listCollections")), itemIndex)
  ELSE [Start EXCEPT !.existed = {CollectionListed(collections, name)}]

\* The server serves a create request.  For a name that is in use by now the
\* answer depends on the server: an error, or success when it treats a
\* create with the same options as done (idempotent).
populateVectorStore_created(itemIndex, name, F, idempotent) ==
  IF idempotent /\ CollectionListed(collections, name) /\ "createCollection" \notin F
  THEN [Start EXCEPT !.created = TRUE, !.reissued = name.text \in createIssued,
                     !.creates = createIssued \cup {name.text}]
  ELSE CatchWrite(createCollection(Start, name, F), itemIndex)

\* The batch insert completes.
populateVectorStore_inserted(itemIndex, name, F) ==
  CatchWrite(fromDocuments(Start, name, F), itemIndex)

CollectionOf(p) == nodeParameters[ItemOf(calls[p])][MONGODB_COLLECTION_NAME]
PopulateOps == {"populateVectorStore", "populateVectorStore_p0"}

\* The state an effect e leaves, and the slot's next position.
Settle(p, e, pc) ==
  /\ e.next <= MaxHandles + 1
  /\ MONGO_CLIENTS' = e.cache
  /\ nextHandle' = e.next
  /\ closed' = e.closed
  /\ collections' = e.colls
  /\ createIssued' = e.creates
  /\ calls' = [calls EXCEPT ![p].pc = IF e.kind = "throw" THEN "thrown" ELSE pc,
                            ![p].err = e.err,
                            ![p].existed = IF e.existed # {} THEN e.existed ELSE @,
                            ![p].created = e.created \/ @]
  /\ UNCHANGED <<nodeParameters, firstClient, resolved, retired, last>>

CallPopulateVectorStore(p) ==
  /\ calls[p].pc = "idle"
  /\ \E nodeId \in NodeIds, itemIndex \in Items, F \in FaultsOf(DatabaseSteps) :
       \E e \in {populateVectorStore_begin(itemIndex, F)} :
         /\ e.next <= MaxHandles + 1
         /\ MONGO_CLIENTS' = e.cache
         /\ nextHandle' = e.next
         /\ calls' = [calls EXCEPT ![p] =
                        [Idle EXCEPT !.op = "populateVectorStore", !.node = nodeId,
                                     !.item = {itemIndex}, !.err = e.err,
                                     !.pc = IF e.kind = "throw" THEN "thrown"
                                            ELSE "listCollections"]]
  /\ UNCHANGED <<closed, collections, nodeParameters, createIssued, firstClient,
                 resolved, retired, last>>

CallPopulateVectorStore_p0(p) ==
  /\ calls[p].pc = "idle"
  /\ \E nodeId \in NodeIds, itemIndex \in Items, F \in FaultsOf(DatabaseSteps) :
       \E e \in {populateVectorStore_p0_begin(nodeId, itemIndex, F)} :
         /\ e.next <= MaxHandles + 1
         /\ MONGO_CLIENTS' = e.cache
         /\ nextHandle' = e.next
         /\ calls' = [calls EXCEPT ![p] =
                        [Idle EXCEPT !.op = "populateVectorStore_p0", !.node = nodeId,
                                     !.item = {itemIndex}, !.err = e.err,
                                     !.pc = IF e.kind = "throw" THEN "thrown"
                                            ELSE "listCollections"]]
  /\ UNCHANGED <<closed, collections, nodeParameters, createIssued, firstClient,
                 resolved, retired, last>>

\* The listing arrives; the invocation goes on to its create or its insert.
ListingArrives(p) ==
  /\ calls[p].op \in PopulateOps /\ calls[p].pc = "listCollections"
  /\ \E F \in FaultsOf({"listCollections"}) :
       \E e \in {populateVectorStore_listed(ItemOf(calls[p]), CollectionOf(p), F)} :
         Settle(p, e, IF e.existed = {FALSE} THEN "createCollection" ELSE "fromDocuments")

\* The create is served; the invocation goes on to its insert or fails.
CreateServed(p) ==
  /\ calls[p].op \in PopulateOps /\ calls[p].pc = "createCollection"
  /\ \E F \in FaultsOf({"createCollection"}), idempotent \in BOOLEAN :
       \E e \in {populateVectorStore_created(ItemOf(calls[p]), CollectionOf(p), F, idempotent)} :
         Settle(p, e, "fromDocuments")

\* The insert is served; the invocation returns or fails.
InsertServed(p) ==
  /\ calls[p].op \in PopulateOps /\ calls[p].pc = "fromDocuments"
  /\ \E F \in FaultsOf({"fromDocuments"}) :
       \E e \in {populateVectorStore_inserted(ItemOf(calls[p]), CollectionOf(p), F)} :
         Settle(p, e, "returned")

PopulateRaceNext ==
  \/ \E p \in Slots : CallPopulateVectorStore(p)
  \/ \E p \in Slots : CallPopulateVectorStore_p0(p)
  \/ \E p \in Slots : ListingArrives(p)
  \/ \E p \in Slots : CreateServed(p)
  \/ \E p \in Slots : InsertServed(p)

PopulateRaceSpec == PopulateRaceInit /\ [][PopulateRaceNext]_vars

\* The clients the invocations that missed built and returned for node id n.
\* Clients are numbered in the order they are built, and new MongoClient and
\* MONGO_CLIENTS.set run in one step, so the largest is the one stored last.
BuiltFor(n) ==
  {h \in 1..(nextHandle - 1) :
     \E p \in Slots : /\ calls[p].op = "getMongoClient_p0" /\ calls[p].pc = "returned"
                      /\ calls[p].fresh /\ calls[p].node = n /\ calls[p].client = {h}}
StoredLast(n) == CHOOSE h \in BuiltFor(n) : \A g \in BuiltFor(n) : g <= h

\* C11: getMongoClient invocations of part_000 that interleave on a miss
\* each build a client of their own, so two of them for one node id return
\* distinct clients; MONGO_CLIENTS then holds one client for that id, the
\* one stored last, and no entry of the map refers to the other.
C11_RaceKeepsLastStored ==
  /\ \A p, q \in Slots :
       (/\ p # q
        /\ calls[p].op = "getMongoClient_p0" /\ calls[q].op = "getMongoClient_p0"
        /\ calls[p].pc = "returned" /\ calls[q].pc = "returned"
        /\ calls[p].fresh /\ calls[q].fresh)
         => calls[p].client # calls[q].client
  /\ \A n \in NodeIds :
       BuiltFor(n) # {}
         => /\ n \in DOMAIN MONGO_CLIENTS
            /\ MONGO_CLIENTS[n] = StoredLast(n)
            /\ \A h \in BuiltFor(n) \ {StoredLast(n)} :
                 \A m \in DOMAIN MONGO_CLIENTS : MONGO_CLIENTS[m] # h

\* C11 witness: two invocations for one node id both missed, both returned,
\* with distinct clients; the map has the single entry for that id and it
\* is the later client.
C11_Witness ==
  \E p, q \in Slots :
    /\ calls[p].op = "getMongoClient_p0" /\ calls[q].op = "getMongoClient_p0"
    /\ calls[p].pc = "returned" /\ calls[q].pc = "returned"
    /\ calls[p].fresh /\ calls[q].fresh
    /\ calls[p].node = calls[q].node
    /\ calls[p].client = {1} /\ calls[q].client = {2}
    /\ DOMAIN MONGO_CLIENTS = {calls[p].node}
    /\ MONGO_CLIENTS[calls[p].node] = 2

\* The error an invocation for item i ends with when its create is refused
\* because the collection exists.
AlreadyExists(i) ==
  Wrap(Err("Error", <<"Collection ", nodeParameters[i][MONGODB_COLLECTION_NAME].text,
                      " already exists">>, {}, ""), i)

\* C12: when populateVectorStore runs concurrently for different items that
\* address one initially absent collection, createCollection is issued by at
\* most one of the invocations, and no invocation fails because another one
\* created the collection between its listing and its create.
C12_ConcurrentCreateOnce ==
  /\ \A p, q \in Slots :
       (/\ p # q
        /\ calls[p].op \in PopulateOps /\ calls[q].op \in PopulateOps
        /\ calls[p].item # calls[q].item
        /\ CollectionOf(p) = CollectionOf(q))
         => ~(calls[p].created /\ calls[q].created)
  /\ \A p \in Slots :
       (calls[p].op \in PopulateOps /\ calls[p].pc = "thrown")
         => calls[p].err # AlreadyExists(ItemOf(calls[p]))

====
